---- MODULE Spec2Model ----
(***************************************************************************)
(* Booking lifecycle of the MekaCash backend (src/src/models/Service.js):  *)
(* one Booking document held in memory by a caller (doc), the copy of it   *)
(* held by the database (db), and the instance methods updateStatus,       *)
(* addMessage, updateTracking, cancelBooking and addReview, each of which  *)
(* ends in this.save(): the schema validators, then the two pre('save')    *)
(* hooks, then the write.                                                  *)
(*                                                                         *)
(* Specifications:                                                         *)
(*   Spec      status transitions, cancellation and messages of a booking  *)
(*   SpecLife  all five lifecycle methods of a booking                     *)
(*   SpecIds   Spec, also for a booking constructed without a bookingId    *)
(*   SpecFail  transitions and cancellations whose database write fails    *)
(*   SpecRating  updateRating on a Service document (doc and db are then   *)
(*             the Service held by the caller and the stored one)          *)
(*   SpecRace  two callers that each load the stored booking, apply        *)
(*             updateStatus and save (doc then maps each caller to its     *)
(*             position and its copy of the booking)                       *)
(*   SpecTwo   updateStatus calls on two distinct bookings, interleaved    *)
(*             (doc and db then map each booking to its caller and to its  *)
(*             stored document)                                            *)
(*   SpecRate  requests through one rateLimitByUser middleware (doc is     *)
(*             then its closure, db the arrival times of the requests it   *)
(*             passed on, per user)                                        *)
(*   SpecSocket  the socket layer of server.js (doc then maps each socket  *)
(*             to its connection, its rooms and the joins it emitted)      *)
(*   SpecMw    authMiddleware with the user cache (db is then the user's   *)
(*             record in the database, doc the cache entry user:<id>)      *)
(*   SpecReset  forgot-password and concurrent reset-password requests of  *)
(*             one user (db is then the user's record, doc the requests    *)
(*             being handled)                                              *)
(*   SpecAccount  register, login and forgot-password, with saves and      *)
(*             emails that may fail (db is then the stored users by email) *)
(***************************************************************************)
EXTENDS Integers, Sequences, FiniteSets, TLC

VARIABLES doc, db, now, last

vars == <<doc, db, now, last>>

----------------------------------------------------------------------------
(* Bounds of the model *)

\* the clock runs over 0..MaxTime
MaxTime == 1
\* status.history, messages and tracking.route together hold at most
\* MaxEntries entries
MaxEntries == 4
\* in SpecLife the document holds at most MaxLife items: list entries, a
\* review, a cancellation
MaxLife == 3
\* in SpecRating updateRating is called at most MaxRatings times
MaxRatings == 7
\* in SpecRate the clock runs over 0..MaxClock
MaxClock == 4
\* in SpecAccount at most MaxAttempts failed logins are counted per account
MaxAttempts == 2

----------------------------------------------------------------------------
(* Values *)

\* the enum of status.current
Statuses ==
  {"pending", "confirmed", "assigned", "in-progress",
   "completed", "cancelled", "failed", "disputed"}

\* a value outside the enum
BadStatus == "not-a-real-status"

\* the default of status.current
DefaultStatus == "pending"

\* the enum of cancellation.refundStatus and its default
RefundStatuses == {"pending", "processed", "completed", "failed"}

DefaultRefundStatus == "pending"

\* a field the code leaves undefined
Undefined == "undefined"

\* the booking's owner (this.user); "u2" is another participant
Owner == "u1"

\* the booking's provider
Provider == "p1"

\* (updatedBy, notes) arguments of updateStatus: an actor who is not the owner
StatusArgs == {<<"u2", "n">>}

\* (sender, message) arguments of addMessage
MessageArgs == {<<"u1", "hi">>, <<"u2", "yo">>}

\* (cancelledBy, reason, refundAmount) arguments of cancelBooking;
\* 0 is the default of refundAmount
CancelArgs == {<<"u1", "r1", 0>>, <<"u2", "r2", 50>>}

\* (latitude, longitude) arguments of updateTracking
TrackArgs == {<<1, 2>>, <<3, 4>>}

\* (rating, comment) arguments of addReview; the validators of review.rating
\* are min 1 and max 5
ReviewArgs == {<<5, "great">>, <<6, "great">>}

\* what a caller may pass as status.current to the constructor
\* (Undefined: no explicit status)
CtorStatuses == {Undefined, "pending", "completed"}

\* bookingId: 0 is unset, 1 is a generated or given identifier
NoBookingId == 0

Min(a, b) == IF a <= b THEN a ELSE b

LastOf(s) == s[Len(s)]

\* s is a prefix of t
IsPrefix(s, t) == Len(s) <= Len(t) /\ SubSeq(t, 1, Len(s)) = s

----------------------------------------------------------------------------
(* The document *)

\* cancellation sub-document after the schema defaults
DefaultCancellation ==
  [isCancelled |-> FALSE, cancelledBy |-> Undefined, cancelledAt |-> -1,
   reason |-> Undefined, refundAmount |-> -1,
   refundStatus |-> DefaultRefundStatus]

\* review sub-document after the schema defaults: no rating yet
NoRating == -1

DefaultReview ==
  [rating |-> NoRating, comment |-> Undefined, submittedAt |-> -1,
   isPublic |-> TRUE]

\* tracking.currentLocation before any updateTracking
NoLocation ==
  [coordinates |-> Undefined, timestamp |-> -1, address |-> Undefined]

\* actualStartTime and actualEndTime of a booking that has neither
NoTime == -1

\* the pricing snapshot and the payment sub-document given at creation,
\* payment with its schema defaults
InitialPricing ==
  [basePrice |-> 100, tax |-> 0, totalAmount |-> 100, currency |-> "USD"]

InitialPayment ==
  [method |-> "card", status |-> "pending", refundAmount |-> 0]

\* new Booking({bookingId, user, status: {current: st}, ...}): a path given
\* to the constructor is marked modified, a defaulted path is not
NewBooking(bid, st) ==
  [isNew |-> TRUE,
   bookingId |-> bid,
   user |-> Owner,
   provider |-> Provider,
   runner |-> Undefined,
   actualStartTime |-> NoTime,
   actualEndTime |-> NoTime,
   current |-> IF st = Undefined THEN DefaultStatus ELSE st,
   modCurrent |-> st # Undefined,
   history |-> << >>,
   messages |-> << >>,
   currentLocation |-> NoLocation,
   route |-> << >>,
   review |-> DefaultReview,
   pricing |-> InitialPricing,
   payment |-> InitialPayment,
   cancellation |-> DefaultCancellation]

\* this.status.current = v: the path becomes modified when the document is
\* new or the value differs from the one held, and stays modified until a
\* save succeeds
SetCurrent(d, v) ==
  [d EXCEPT !.current = v,
            !.modCurrent = (d.modCurrent \/ d.isNew \/ v # d.current)]

\* the schema validators that save() runs before the pre('save') hooks:
\* bookingId is required, status.current is in the enum, review.rating,
\* when set, is at least 1 and at most 5
Validate(d) ==
  /\ d.bookingId # NoBookingId
  /\ d.current \in Statuses
  /\ d.review.rating # NoRating => (d.review.rating >= 1 /\ d.review.rating <= 5)

\* generateBookingId()
generateBookingId == 1

\* first pre('save') hook
PreSaveBookingId(d) ==
  IF d.bookingId = NoBookingId
  THEN [d EXCEPT !.bookingId = generateBookingId]
  ELSE d

\* the hook without its push
PreSaveStatusHistory_NoPush(d, t) == d

\* the hook stamping its entry with a fixed time instead of new Date()
PreSaveStatusHistory_Stale(d, t) ==
  IF d.modCurrent
  THEN [d EXCEPT !.history =
          Append(@, [status |-> d.current, timestamp |-> 0,
                     updatedBy |-> d.user, notes |-> Undefined])]
  ELSE d

\* second pre('save') hook, run at time t
PreSaveStatusHistory(d, t) ==
  IF d.modCurrent
  THEN [d EXCEPT !.history =
          Append(@, [status |-> d.current, timestamp |-> t,
                     updatedBy |-> d.user, notes |-> Undefined])]
  ELSE d

\* what the database stores of a document
Persisted(d) ==
  [bookingId |-> d.bookingId, user |-> d.user, provider |-> d.provider,
   runner |-> d.runner, current |-> d.current,
   actualStartTime |-> d.actualStartTime, actualEndTime |-> d.actualEndTime,
   history |-> d.history, messages |-> d.messages,
   currentLocation |-> d.currentLocation, route |-> d.route,
   review |-> d.review, pricing |-> d.pricing, payment |-> d.payment,
   cancellation |-> d.cancellation]

\* the document after a successful write: no longer new, nothing modified
AfterSave(d) == [d EXCEPT !.isNew = FALSE, !.modCurrent = FALSE]

\* this.save() at time t when the database rejects the write: validation
\* and the hooks have run on the caller's document, which stays new and
\* modified; nothing is stored
SaveRejected(d, t) ==
  IF ~Validate(d)
  THEN [ok |-> FALSE, doc |-> d, db |-> db]
  ELSE [ok |-> FALSE, doc |-> PreSaveStatusHistory(PreSaveBookingId(d), t),
        db |-> db]

\* this.save() at time t: [ok, doc, db]
Save(d, t) ==
  IF ~Validate(d)
  THEN [ok |-> FALSE, doc |-> d, db |-> db]
  ELSE LET h == PreSaveStatusHistory(PreSaveBookingId(d), t)
       IN [ok |-> TRUE, doc |-> AfterSave(h), db |-> Persisted(h)]

----------------------------------------------------------------------------
(* The bodies of the instance methods, before their this.save() *)

\* updateStatus with an adjacency rule: no transition out of a terminal status
updateStatusBody_Adjacency(d, newStatus, updatedBy, notes, t) ==
  IF d.current \in {"completed", "cancelled", "failed"}
  THEN d
  ELSE [SetCurrent(d, newStatus) EXCEPT !.history =
          Append(@, [status |-> newStatus, timestamp |-> t,
                     updatedBy |-> updatedBy, notes |-> notes])]

updateStatusBody(d, newStatus, updatedBy, notes, t) ==
  LET s == SetCurrent(d, newStatus)
  IN [s EXCEPT !.history =
        Append(@, [status |-> newStatus, timestamp |-> t,
                   updatedBy |-> updatedBy, notes |-> notes])]

\* addMessage with unshift in place of push
addMessageBody_Prepend(d, sender, message, t) ==
  [d EXCEPT !.messages =
     <<[sender |-> sender, message |-> message,
        timestamp |-> t, isRead |-> FALSE]>> \o @]

addMessageBody(d, sender, message, t) ==
  [d EXCEPT !.messages =
     Append(@, [sender |-> sender, message |-> message,
                timestamp |-> t, isRead |-> FALSE])]

\* updateTracking that records the route entry with the coordinates swapped
updateTrackingBody_Swapped(d, latitude, longitude, address, t) ==
  [d EXCEPT
     !.currentLocation =
        [coordinates |-> [latitude |-> latitude, longitude |-> longitude],
         timestamp |-> t, address |-> address],
     !.route =
        Append(@, [coordinates |->
                     [latitude |-> longitude, longitude |-> latitude],
                   timestamp |-> t])]

updateTrackingBody(d, latitude, longitude, address, t) ==
  [d EXCEPT
     !.currentLocation =
        [coordinates |-> [latitude |-> latitude, longitude |-> longitude],
         timestamp |-> t, address |-> address],
     !.route =
        Append(@, [coordinates |->
                     [latitude |-> latitude, longitude |-> longitude],
                   timestamp |-> t])]

addReviewBody(d, rating, comment, isPublic, t) ==
  [d EXCEPT !.review =
     [rating |-> rating, comment |-> comment, submittedAt |-> t,
      isPublic |-> isPublic]]

\* cancelBooking that also books the refund on the payment sub-document
cancelBookingBody_Payment(d, cancelledBy, reason, refundAmount, t) ==
  LET c == [d EXCEPT !.cancellation =
              [isCancelled |-> TRUE, cancelledBy |-> cancelledBy,
               cancelledAt |-> t, reason |-> reason,
               refundAmount |-> refundAmount,
               refundStatus |-> IF refundAmount > 0 THEN "pending"
                                ELSE "completed"],
            !.payment.refundAmount = refundAmount]
  IN SetCurrent(c, "cancelled")

\* cancelBooking with refundAmount >= 0 in place of refundAmount > 0
cancelBookingBody_Geq(d, cancelledBy, reason, refundAmount, t) ==
  LET c == [d EXCEPT !.cancellation =
              [isCancelled |-> TRUE, cancelledBy |-> cancelledBy,
               cancelledAt |-> t, reason |-> reason,
               refundAmount |-> refundAmount,
               refundStatus |-> IF refundAmount >= 0 THEN "pending"
                                ELSE "completed"]]
  IN SetCurrent(c, "cancelled")

cancelBookingBody(d, cancelledBy, reason, refundAmount, t) ==
  LET c == [d EXCEPT !.cancellation =
              [isCancelled |-> TRUE, cancelledBy |-> cancelledBy,
               cancelledAt |-> t, reason |-> reason,
               refundAmount |-> refundAmount,
               refundStatus |-> IF refundAmount > 0 THEN "pending"
                                ELSE "completed"]]
  IN SetCurrent(c, "cancelled")

----------------------------------------------------------------------------
(* The state machine *)

\* the call that led to the current state
Call(op, ok, status, by, text, amount) ==
  [op |-> op, ok |-> ok, status |-> status, by |-> by, text |-> text,
   amount |-> amount]

NoCall == Call("new", TRUE, Undefined, Undefined, Undefined, 0)

Init ==
  /\ \E st \in CtorStatuses : doc = NewBooking(1, st)
  /\ db = << >>
  /\ now = 0
  /\ last = NoCall

\* a method reads the clock at now; the save hook of the same call reads it
\* later, at a time in HookTimes: the clock never runs backwards
HookTimes == now .. Min(now + 1, MaxTime)

\* the document's lists can take n more entries
Room(n) ==
  Len(doc.history) + Len(doc.messages) + Len(doc.route) + n <= MaxEntries

Finish(r, call, t2) ==
  /\ doc' = r.doc
  /\ db' = r.db
  /\ now' = t2
  /\ last' = [call EXCEPT !.ok = r.ok]

\* doc.save() by the caller, e.g. to create the booking
SaveBooking ==
  \E t2 \in HookTimes :
    /\ Room(1)
    /\ Finish(Save(doc, t2),
              Call("save", TRUE, Undefined, Undefined, Undefined, 0), t2)

\* updateStatus with a newStatus of S
UpdateStatusTo(S) ==
  \E newStatus \in S, a \in StatusArgs, t2 \in HookTimes :
    /\ Room(2)
    /\ Finish(Save(updateStatusBody(doc, newStatus, a[1], a[2], now), t2),
              Call("updateStatus", TRUE, newStatus, a[1], a[2], 0), t2)

UpdateStatus == UpdateStatusTo(Statuses \cup {BadStatus})

AddMessage ==
  \E a \in MessageArgs, t2 \in HookTimes :
    /\ Room(2)
    /\ Finish(Save(addMessageBody(doc, a[1], a[2], now), t2),
              Call("addMessage", TRUE, Undefined, a[1], a[2], 0), t2)

CancelBooking ==
  \E a \in CancelArgs, t2 \in HookTimes :
    /\ Room(1)
    /\ Finish(Save(cancelBookingBody(doc, a[1], a[2], a[3], now), t2),
              Call("cancelBooking", TRUE, "cancelled", a[1], a[2], a[3]), t2)

Next ==
  \/ SaveBooking
  \/ UpdateStatus
  \/ AddMessage
  \/ CancelBooking

Spec == Init /\ [][Next]_vars

----------------------------------------------------------------------------
(* What a transition hands to its participants *)

\* updateStatus returns this.save(), the promise of the document: it builds
\* no notification intent
updateStatusIntents(d) == {}

\* socket.on('booking-update'): the rooms the event is relayed to
bookingUpdateRooms(data) ==
  {<<"user", data.userId>>, <<"runner", data.runnerId>>}

\* the requester, the provider, and the runner if one is assigned
Participants(d) ==
  {d.user, d.provider} \cup (IF d.runner = Undefined THEN {} ELSE {d.runner})

----------------------------------------------------------------------------
(* A booking constructed with or without a bookingId *)

InitIds ==
  /\ \E bid \in {NoBookingId, 1}, st \in CtorStatuses :
        doc = NewBooking(bid, st)
  /\ db = << >>
  /\ now = 0
  /\ last = NoCall

SpecIds == InitIds /\ [][Next]_vars

----------------------------------------------------------------------------
(* Database writes that fail *)

\* the statuses passed to updateStatus in SpecFail
FailStatuses == {"confirmed", "completed"}

UpdateStatusFail == UpdateStatusTo(FailStatuses)

UpdateStatusRejected ==
  \E newStatus \in FailStatuses, a \in StatusArgs, t2 \in HookTimes :
    /\ Room(2)
    /\ Finish(SaveRejected(
                updateStatusBody(doc, newStatus, a[1], a[2], now), t2),
              Call("updateStatus", TRUE, newStatus, a[1], a[2], 0), t2)

CancelBookingRejected ==
  \E a \in CancelArgs, t2 \in HookTimes :
    /\ Room(1)
    /\ Finish(SaveRejected(
                cancelBookingBody(doc, a[1], a[2], a[3], now), t2),
              Call("cancelBooking", TRUE, "cancelled", a[1], a[2], a[3]), t2)

NextFail ==
  \/ SaveBooking
  \/ UpdateStatusFail
  \/ CancelBooking
  \/ UpdateStatusRejected
  \/ CancelBookingRejected

SpecFail == Init /\ [][NextFail]_vars

----------------------------------------------------------------------------
(* JavaScript numbers: IEEE 754 binary64, round to nearest, ties to even.   *)
(* A non-negative number is [hi, lo, e], of value (hi * 2^26 + lo) * 2^e    *)
(* with a mantissa of 53 bits (2^26 <= hi < 2^27), or zero [0, 0, 0].       *)
(* Exact intermediate results are wide naturals <<w2, w1, w0>> in base 2^26 *)

Limb == 67108864

Zero == [hi |-> 0, lo |-> 0, e |-> 0]

WOfInt(n) == <<0, 0, n>>

WOfMantissa(x) == <<x.hi \div Limb, x.hi % Limb, x.lo>>

\* w * k for a small k
WMulSmall(w, k) ==
  LET p0 == w[3] * k
      p1 == w[2] * k + p0 \div Limb
      p2 == w[1] * k + p1 \div Limb
  IN <<p2, p1 % Limb, p0 % Limb>>

WAdd(w, v) ==
  LET p0 == w[3] + v[3]
      p1 == w[2] + v[2] + p0 \div Limb
      p2 == w[1] + v[1] + p1 \div Limb
  IN <<p2, p1 % Limb, p0 % Limb>>

\* w - v for w >= v
WSub(w, v) ==
  LET b0 == IF w[3] < v[3] THEN 1 ELSE 0
      p0 == w[3] + b0 * Limb - v[3]
      b1 == IF w[2] < v[2] + b0 THEN 1 ELSE 0
      p1 == w[2] + b1 * Limb - v[2] - b0
      p2 == w[1] - v[1] - b1
  IN <<p2, p1, p0>>

WLeq(w, v) ==
  \/ w[1] < v[1]
  \/ w[1] = v[1] /\ w[2] < v[2]
  \/ w[1] = v[1] /\ w[2] = v[2] /\ w[3] <= v[3]

\* the quotient and the remainder of w by a small k
WDivSmall(w, k) ==
  LET q2 == w[1] \div k
      r2 == w[1] % k
      n1 == r2 * Limb + w[2]
      q1 == n1 \div k
      r1 == n1 % k
      n0 == r1 * Limb + w[3]
  IN [q |-> <<q2, q1, n0 \div k>>, r |-> n0 % k]

RECURSIVE WShl(_, _)
\* w * 2^n
WShl(w, n) ==
  IF n = 0 THEN w
  ELSE IF n >= 26 THEN WShl(<<w[1] * Limb + w[2], w[3], 0>>, n - 26)
  ELSE IF n >= 4 THEN WShl(WMulSmall(w, 16), n - 4)
  ELSE WShl(WMulSmall(w, 2), n - 1)

\* w has more than 53 bits; w has fewer than 53 bits
WOver(w) == w[1] >= 2

WUnder(w) == w[1] = 0

\* the number of mantissa w, of 53 bits, and exponent e
NumOf(w, e) == [hi |-> w[1] * Limb + w[2], lo |-> w[3], e |-> e]

RECURSIVE Round(_, _, _, _)
\* the number nearest to (w + f) * 2^e, where the fraction f, 0 <= f < 1, has
\* first bit g (guard) and is more than that bit iff s (sticky)
Round(w, e, g, s) ==
  IF w = <<0, 0, 0>> THEN Zero
  ELSE IF WOver(w)
  THEN Round(WDivSmall(w, 2).q, e + 1, WDivSmall(w, 2).r = 1, g \/ s)
  ELSE IF WUnder(w) /\ w[2] = 0
  THEN Round(<<w[2], w[3], 0>>, e - 26, FALSE, FALSE)
  ELSE IF WUnder(w) /\ w[2] < 4194304
  THEN Round(WMulSmall(w, 16), e - 4, FALSE, FALSE)
  ELSE IF WUnder(w)
  THEN Round(WMulSmall(w, 2), e - 1, FALSE, FALSE)
  ELSE IF g /\ (s \/ w[3] % 2 = 1)
  THEN LET u == WAdd(w, WOfInt(1))
       IN IF WOver(u) THEN NumOf(<<1, 0, 0>>, e + 1) ELSE NumOf(u, e)
  ELSE NumOf(w, e)

\* the number of value n, a small natural
NumOfInt(n) == Round(WOfInt(n), 0, FALSE, FALSE)

\* x * k for a natural k
NumTimesInt(x, k) == Round(WMulSmall(WOfMantissa(x), k), x.e, FALSE, FALSE)

\* x + r for a natural r and an x of exponent at most 0
NumPlusInt(x, r) ==
  Round(WAdd(WOfMantissa(x), WShl(WOfInt(r), 0 - x.e)), x.e, FALSE, FALSE)

\* the bits kept beyond the mantissa by a division
GuardBits == 8

\* x / k for a natural k, 0 < k < 16
NumDivInt(x, k) ==
  LET d == WDivSmall(WShl(WOfMantissa(x), GuardBits), k)
  IN Round(d.q, x.e - GuardBits, FALSE, d.r # 0)

\* x <= n for a natural n and an x of exponent at most 0
NumLeqInt(x, n) == WLeq(WOfMantissa(x), WShl(WOfInt(n), 0 - x.e))

\* |x * k - n| in units of 2^(x.e), as a wide natural
UlpsOff(x, k, n) ==
  LET a == WMulSmall(WOfMantissa(x), k)
      b == WShl(WOfInt(n), 0 - x.e)
  IN IF WLeq(a, b) THEN WSub(b, a) ELSE WSub(a, b)

----------------------------------------------------------------------------
(* The Service document and updateRating *)

\* the rating values passed to updateRating
Ratings == 1 .. 5

\* Number.prototype.toString of a whole number 0..9
DigitString(n) ==
  CASE n = 0 -> "0" [] n = 1 -> "1" [] n = 2 -> "2" [] n = 3 -> "3"
    [] n = 4 -> "4" [] n = 5 -> "5" [] n = 6 -> "6" [] n = 7 -> "7"
    [] n = 8 -> "8" [] n = 9 -> "9"

\* the keys of ratings.distribution
Buckets == {"five", "four", "three", "two", "one"}

\* the bucket that stands for a rating
BucketOf(r) ==
  CASE r = 5 -> "five" [] r = 4 -> "four" [] r = 3 -> "three"
    [] r = 2 -> "two" [] r = 1 -> "one"

\* ratings of a new Service, after the schema defaults
NewService ==
  [total |-> 0, average |-> Zero, distribution |-> [b \in Buckets |-> 0]]

\* the validators of ratings.average: min 0, max 5
ValidateService(v) == NumLeqInt(v.average, 5)

\* updateRating dividing by the old total
updateRatingBody_OldTotal(v, newRating) ==
  [v EXCEPT
     !.total = @ + 1,
     !.average =
        IF v.total = 0 THEN NumOfInt(newRating)
        ELSE NumDivInt(NumPlusInt(NumTimesInt(v.average, v.total),
                                  newRating), v.total)]

\* the body of updateRating, before its this.save(); newRating is whole, so
\* Math.floor(newRating) is newRating
updateRatingBody(v, newRating) ==
  LET ratingKey == DigitString(newRating)
      w == [v EXCEPT
              !.total = @ + 1,
              !.average =
                 NumDivInt(NumPlusInt(NumTimesInt(v.average, v.total),
                                      newRating), v.total + 1)]
  IN IF ratingKey \in DOMAIN v.distribution
     THEN [w EXCEPT !.distribution[ratingKey] = @ + 1]
     ELSE w

\* the calls made so far: the last rating, how many, and their sum
RatingCalls(ok, r, n, sum) ==
  [op |-> "updateRating", ok |-> ok, rating |-> r, n |-> n, sum |-> sum]

InitRating ==
  /\ doc = NewService
  /\ db = NewService
  /\ now = 0
  /\ last = RatingCalls(TRUE, 0, 0, 0)

UpdateRating ==
  \E r \in Ratings :
    /\ last.n < MaxRatings
    /\ LET v == updateRatingBody(doc, r)
       IN /\ doc' = v
          /\ db' = IF ValidateService(v) THEN v ELSE db
          /\ last' = RatingCalls(ValidateService(v), r, last.n + 1,
                                 last.sum + r)
    /\ now' = now

NextRating == UpdateRating

SpecRating == InitRating /\ [][NextRating]_vars

----------------------------------------------------------------------------
(* Two callers on one stored booking *)

Callers == {"a", "b"}

\* the statuses the two callers ask for
RaceStatuses == {"pending", "confirmed", "completed"}

\* the stored booking the callers find: created and saved at time 0
StoredBooking == Save(NewBooking(1, Undefined), 0).db

\* the document a query builds from the stored booking s: not new, nothing
\* modified
Hydrate(s) ==
  [isNew |-> FALSE, modCurrent |-> FALSE,
   bookingId |-> s.bookingId, user |-> s.user, provider |-> s.provider,
   runner |-> s.runner, current |-> s.current,
   actualStartTime |-> s.actualStartTime, actualEndTime |-> s.actualEndTime,
   history |-> s.history, messages |-> s.messages,
   currentLocation |-> s.currentLocation, route |-> s.route,
   review |-> s.review, pricing |-> s.pricing, payment |-> s.payment,
   cancellation |-> s.cancellation]

\* the write of save() on a loaded document d whose history had base entries
\* when loaded: status.current is set only if modified, the entries pushed
\* since the load are appended to the stored array
WriteDelta(s, d, base) ==
  [s EXCEPT !.current = IF d.modCurrent THEN d.current ELSE @,
            !.history = @ \o SubSeq(d.history, base + 1, Len(d.history))]

\* a caller: its position, its document, the length of the history it
\* loaded, and its call
Caller(pc, d, base, call) == [pc |-> pc, d |-> d, base |-> base, call |-> call]

InitRace ==
  /\ doc = [c \in Callers |-> Caller("start", Undefined, 0, NoCall)]
  /\ db = StoredBooking
  /\ now = 0
  /\ last = NoCall

\* the caller loads the booking
RaceLoad(c) ==
  /\ doc[c].pc = "start"
  /\ doc' = [doc EXCEPT ![c] =
               Caller("loaded", Hydrate(db), Len(db.history), NoCall)]
  /\ UNCHANGED <<db, now, last>>

\* the caller calls updateStatus: the body, then of its save() the
\* validation and the hooks
RaceUpdateStatus(c) ==
  /\ doc[c].pc = "loaded"
  /\ \E newStatus \in RaceStatuses, a \in StatusArgs, t2 \in HookTimes :
       LET d1 == updateStatusBody(doc[c].d, newStatus, a[1], a[2], now)
           call == Call("updateStatus", Validate(d1), newStatus, a[1], a[2], 0)
       IN /\ doc' = [doc EXCEPT ![c] =
                       IF Validate(d1)
                       THEN Caller("saving",
                              PreSaveStatusHistory(PreSaveBookingId(d1), t2),
                              doc[c].base, call)
                       ELSE Caller("done", d1, doc[c].base, call)]
          /\ last' = IF Validate(d1) THEN last ELSE call
          /\ now' = t2
  /\ UNCHANGED db

\* the write of the caller's save() reaches the database
RaceWrite(c) ==
  /\ doc[c].pc = "saving"
  /\ db' = WriteDelta(db, doc[c].d, doc[c].base)
  /\ doc' = [doc EXCEPT ![c] =
               Caller("done", AfterSave(doc[c].d), doc[c].base, doc[c].call)]
  /\ last' = doc[c].call
  /\ now' = now

NextRace == \E c \in Callers : RaceLoad(c) \/ RaceUpdateStatus(c) \/ RaceWrite(c)

SpecRace == InitRace /\ [][NextRace]_vars

----------------------------------------------------------------------------
(* Two distinct bookings *)

\* the bookingIds of the two bookings
Bookings == {1, 2}

\* the statuses asked for
TwoStatuses == {"confirmed", "completed", BadStatus}

\* the stored booking of bookingId b, created and saved at time 0
StoredBookingOf(b) == Save(NewBooking(b, Undefined), 0).db

\* the write on booking b that replaces every stored booking
WriteBooking_All(s, b, d, base) ==
  [c \in DOMAIN s |-> WriteDelta(s[b], d, base)]

\* the write of save() on the document d of booking b: only the stored
\* document of that booking is updated
WriteBooking(s, b, d, base) == [s EXCEPT ![b] = WriteDelta(@, d, base)]

\* the same calls on one booking run alone: updateStatus and its save at once
AloneStep(x, newStatus, updatedBy, notes, t, t2) ==
  LET d1 == updateStatusBody(x.doc, newStatus, updatedBy, notes, t)
      h == PreSaveStatusHistory(PreSaveBookingId(d1), t2)
  IN IF Validate(d1)
     THEN [doc |-> AfterSave(h), db |-> Persisted(h)]
     ELSE [doc |-> d1, db |-> x.db]

InitTwo ==
  /\ doc = [b \in Bookings |->
              Caller("loaded", Hydrate(StoredBookingOf(b)),
                     Len(StoredBookingOf(b).history), NoCall)]
  /\ db = [b \in Bookings |-> StoredBookingOf(b)]
  /\ now = 0
  /\ last = [call |-> NoCall,
             alone |-> [b \in Bookings |->
                          [doc |-> Hydrate(StoredBookingOf(b)),
                           db |-> StoredBookingOf(b)]]]

\* updateStatus on the document of booking b: the body, then of its save()
\* the validation and the hooks
TwoUpdateStatus(b) ==
  /\ doc[b].pc = "loaded"
  /\ Len(doc[b].d.history) + 2 <= MaxEntries
  /\ \E newStatus \in TwoStatuses, a \in StatusArgs, t2 \in HookTimes :
       LET d1 == updateStatusBody(doc[b].d, newStatus, a[1], a[2], now)
           call == Call("updateStatus", Validate(d1), newStatus, a[1], a[2], 0)
       IN /\ doc' = [doc EXCEPT ![b] =
                       IF Validate(d1)
                       THEN Caller("saving",
                              PreSaveStatusHistory(PreSaveBookingId(d1), t2),
                              doc[b].base, call)
                       ELSE Caller("loaded", d1, doc[b].base, call)]
          /\ last' = [call |-> call,
                      alone |-> [last.alone EXCEPT ![b] =
                                   AloneStep(@, newStatus, a[1], a[2], now, t2)]]
          /\ now' = t2
  /\ UNCHANGED db

\* the write of the save() on booking b reaches the database
TwoWrite(b) ==
  /\ doc[b].pc = "saving"
  /\ db' = WriteBooking(db, b, doc[b].d, doc[b].base)
  /\ doc' = [doc EXCEPT ![b] =
               Caller("loaded", AfterSave(doc[b].d), Len(doc[b].d.history),
                      doc[b].call)]
  /\ UNCHANGED <<now, last>>

NextTwo == \E b \in Bookings : TwoUpdateStatus(b) \/ TwoWrite(b)

SpecTwo == InitTwo /\ [][NextTwo]_vars

----------------------------------------------------------------------------
(* rateLimitByUser *)

\* req.user._id of the users sending requests
Users == {"u1", "u2"}

\* the (maxRequests, windowMs) the middleware is built with
RateLimits == {<<1, 1>>, <<2, 2>>, <<2, 3>>}

\* requests.has(userId) is false
NoEntry == "none"

\* array.filter(timestamp => timestamp > windowStart)
FilterAfter(ts, windowStart) == SelectSeq(ts, LAMBDA x : x > windowStart)

\* the middleware admitting one request more than maxRequests
rateLimit_Gt(c, userId, t) ==
  LET windowStart == t - c.windowMs
      kept == IF c.requests[userId] # NoEntry
              THEN FilterAfter(c.requests[userId], windowStart)
              ELSE << >>
  IN IF Len(kept) > c.maxRequests
     THEN [c |-> [c EXCEPT !.requests[userId] = kept], status |-> 429]
     ELSE [c |-> [c EXCEPT !.requests[userId] = Append(kept, t)],
           status |-> 200]

\* the middleware on a request of userId arriving when Date.now() is t, in
\* the closure c: the closure afterwards, and 429 or 200 for next()
rateLimit(c, userId, t) ==
  LET windowStart == t - c.windowMs
      kept == IF c.requests[userId] # NoEntry
              THEN FilterAfter(c.requests[userId], windowStart)
              ELSE << >>
  IN IF Len(kept) >= c.maxRequests
     THEN [c |-> [c EXCEPT !.requests[userId] = kept], status |-> 429]
     ELSE [c |-> [c EXCEPT !.requests[userId] = Append(kept, t)],
           status |-> 200]

RateCall(user, t, status) ==
  [op |-> "request", user |-> user, time |-> t, status |-> status]

InitRate ==
  /\ \E l \in RateLimits :
       doc = [maxRequests |-> l[1], windowMs |-> l[2],
              requests |-> [u \in Users |-> NoEntry]]
  /\ db = [u \in Users |-> << >>]
  /\ now = 0
  /\ last = RateCall(Undefined, 0, 0)

\* a request of user u arrives at a time t, not before the last one
RateRequest ==
  \E u \in Users, t \in now .. MaxClock :
    LET r == rateLimit(doc, u, t)
    IN /\ doc' = r.c
       /\ db' = IF r.status = 200 THEN [db EXCEPT ![u] = Append(@, t)] ELSE db
       /\ now' = t
       /\ last' = RateCall(u, t, r.status)

\* a request without req.user: req.user._id throws, the catch calls next()
RateRequestNoUser ==
  \E t \in now .. MaxClock :
    /\ now' = t
    /\ last' = RateCall(Undefined, t, 200)
    /\ UNCHANGED <<doc, db>>

NextRate == RateRequest \/ RateRequestNoUser

SpecRate == InitRate /\ [][NextRate]_vars

----------------------------------------------------------------------------
(* The socket layer *)

Sockets == {"s1", "s2"}

\* the userId, runnerId and chatId that clients send
Ids == {"1", "2"}

\* the payloads of booking-update
BookingUpdates == {[userId |-> u, runnerId |-> r] : u \in Ids, r \in Ids}

\* a socket that is not connected
NoSocket == [connected |-> FALSE, rooms |-> {}, joins |-> {}]

\* a socket on connection: it is in the room of its own id
NewSocket(s) == [connected |-> TRUE, rooms |-> {s}, joins |-> {}]

\* join-user joining the runner's room
joinUserRoom_Runner(userId) == "runner-" \o userId

\* `user-${userId}`, `runner-${runnerId}` and `chat-${chatId}`
joinUserRoom(userId) == "user-" \o userId

joinRunnerRoom(runnerId) == "runner-" \o runnerId

chatRoom(chatId) == "chat-" \o chatId

\* io.to(room).emit(name, data): delivered to the connected sockets in room
EmitTo(c, room, name) ==
  [room |-> room, name |-> name,
   to |-> {s \in Sockets : c[s].connected /\ room \in c[s].rooms}]

SocketEvent(event, socket, data, deliveries) ==
  [op |-> event, socket |-> socket, data |-> data, deliveries |-> deliveries]

InitSocket ==
  /\ doc = [s \in Sockets |-> NoSocket]
  /\ db = << >>
  /\ now = 0
  /\ last = SocketEvent("none", Undefined, Undefined, << >>)

Connect ==
  \E s \in Sockets :
    /\ ~doc[s].connected
    /\ doc' = [doc EXCEPT ![s] = NewSocket(s)]
    /\ last' = SocketEvent("connection", s, Undefined, << >>)
    /\ UNCHANGED <<db, now>>

\* on disconnection the socket leaves its rooms
Disconnect ==
  \E s \in Sockets :
    /\ doc[s].connected
    /\ doc' = [doc EXCEPT ![s] = NoSocket]
    /\ last' = SocketEvent("disconnect", s, Undefined, << >>)
    /\ UNCHANGED <<db, now>>

JoinUser ==
  \E s \in Sockets, userId \in Ids :
    /\ doc[s].connected
    /\ doc' = [doc EXCEPT ![s].rooms = @ \cup {joinUserRoom(userId)},
                          ![s].joins = @ \cup {<<"join-user", userId>>}]
    /\ last' = SocketEvent("join-user", s, userId, << >>)
    /\ UNCHANGED <<db, now>>

JoinRunner ==
  \E s \in Sockets, runnerId \in Ids :
    /\ doc[s].connected
    /\ doc' = [doc EXCEPT ![s].rooms = @ \cup {joinRunnerRoom(runnerId)},
                          ![s].joins = @ \cup {<<"join-runner", runnerId>>}]
    /\ last' = SocketEvent("join-runner", s, runnerId, << >>)
    /\ UNCHANGED <<db, now>>

BookingUpdate ==
  \E s \in Sockets, data \in BookingUpdates :
    /\ doc[s].connected
    /\ last' = SocketEvent("booking-update", s, data,
         <<EmitTo(doc, joinUserRoom(data.userId), "booking-status-changed"),
           EmitTo(doc, joinRunnerRoom(data.runnerId),
                  "booking-status-changed")>>)
    /\ UNCHANGED <<doc, db, now>>

SendMessage ==
  \E s \in Sockets, chatId \in Ids :
    /\ doc[s].connected
    /\ last' = SocketEvent("send-message", s, [chatId |-> chatId],
         <<EmitTo(doc, chatRoom(chatId), "new-message")>>)
    /\ UNCHANGED <<doc, db, now>>

LocationUpdate ==
  \E s \in Sockets, userId \in Ids :
    /\ doc[s].connected
    /\ last' = SocketEvent("location-update", s, [userId |-> userId],
         <<EmitTo(doc, joinUserRoom(userId), "runner-location-updated")>>)
    /\ UNCHANGED <<doc, db, now>>

NextSocket ==
  \/ Connect \/ Disconnect \/ JoinUser \/ JoinRunner
  \/ BookingUpdate \/ SendMessage \/ LocationUpdate

SpecSocket == InitSocket /\ [][NextSocket]_vars

----------------------------------------------------------------------------
(* authMiddleware and the user cache *)

\* what a request carries as Authorization: no token, a token that
\* jwt.verify rejects, a token of the user
AuthTokens == {"none", "invalid", "valid"}

\* the lifetime of a cache entry, setCache(key, user, 3600), in clock ticks
CacheTtl == 2

\* the cache without an entry user:<id>
NoCacheEntry ==
  [present |-> FALSE, isActive |-> FALSE, isBlocked |-> FALSE, expires |-> 0]

\* setCache(`user:${id}`, user, 3600) at time t: a copy of the record
CacheEntry(u, t) ==
  [present |-> TRUE, isActive |-> u.isActive, isBlocked |-> u.isBlocked,
   expires |-> t + CacheTtl]

\* getCache(`user:${id}`) at time t: the entry, or none once it expired
getCache(c, t) == IF c.present /\ t < c.expires THEN c ELSE NoCacheEntry

\* authMiddleware at time t on a request with the given token, cache entry c
\* and database record u: 200 stands for next()
authMiddleware(token, c, u, t) ==
  IF token = "none" THEN [status |-> 401, cache |-> c]
  ELSE IF token = "invalid" THEN [status |-> 401, cache |-> c]
  ELSE LET cached == getCache(c, t)
           user == IF cached.present THEN cached ELSE u
           cache == IF cached.present THEN c ELSE CacheEntry(u, t)
       IN IF ~user.isActive THEN [status |-> 403, cache |-> cache]
          ELSE IF user.isBlocked THEN [status |-> 403, cache |-> cache]
          ELSE [status |-> 200, cache |-> cache]

MwCall(op, status) == [op |-> op, status |-> status]

InitMw ==
  /\ db = [isActive |-> TRUE, isBlocked |-> FALSE]
  /\ doc = NoCacheEntry
  /\ now = 0
  /\ last = MwCall("none", 0)

\* a request passes through authMiddleware
MwRequest ==
  \E token \in AuthTokens :
    LET r == authMiddleware(token, doc, db, now)
    IN /\ doc' = r.cache
       /\ last' = MwCall("auth", r.status)
       /\ UNCHANGED <<db, now>>

\* a login of the user succeeds (the record is not blocked) and writes the
\* record to the cache
MwLogin ==
  /\ ~db.isBlocked
  /\ doc' = CacheEntry(db, now)
  /\ last' = MwCall("login", 200)
  /\ UNCHANGED <<db, now>>

\* the user's record is blocked or unblocked, deactivated or reactivated
MwSetFlags ==
  \E a \in BOOLEAN, b \in BOOLEAN :
    /\ <<a, b>> # <<db.isActive, db.isBlocked>>
    /\ db' = [isActive |-> a, isBlocked |-> b]
    /\ last' = MwCall("set-flags", 0)
    /\ UNCHANGED <<doc, now>>

MwTick ==
  /\ now < MaxClock
  /\ now' = now + 1
  /\ UNCHANGED <<doc, db, last>>

NextMw == MwRequest \/ MwLogin \/ MwSetFlags \/ MwTick

SpecMw == InitMw /\ [][NextMw]_vars

----------------------------------------------------------------------------
(* forgot-password and reset-password *)

\* the reset-password requests being handled, each with its new password
ResetRequests == {"r1", "r2"}

NewPassword(r) == IF r = "r1" THEN "p1" ELSE "p2"

\* passwordResetToken when unset, and a request without token
NoToken == << >>

\* the life of a reset token, expiresIn '1h', in clock ticks
ResetTtl == 2

\* jwt.sign({userId}, secret, {expiresIn: '1h'}) at time t: the token is
\* determined by the user and the time of issue
jwtSign(userId, t) == <<userId, t>>

\* jwt.verify(token) at time t does not throw TokenExpiredError
jwtVerify(token, t) == t < token[2] + ResetTtl

\* the user's record when the account has asked for no reset
InitialUser ==
  [password |-> "p0", passwordResetToken |-> NoToken,
   passwordResetExpires |-> NoTime]

\* the checks of reset-password at time t on the record u: the status of the
\* rejection, or 200 when the handler goes on to set the password
resetPasswordChecks(u, token, t) ==
  IF token = NoToken THEN 400
  ELSE IF ~jwtVerify(token, t) THEN 500
  ELSE IF u.passwordResetToken # token THEN 400
  ELSE IF u.passwordResetExpires < t THEN 400
  ELSE 200

\* the assignments of reset-password and its user.save()
resetPasswordSave(u, password) ==
  [u EXCEPT !.password = password,
            !.passwordResetToken = NoToken,
            !.passwordResetExpires = NoTime]

ResetCall(op, status, token) == [op |-> op, status |-> status, token |-> token]

IdleRequest == [pc |-> "idle", token |-> NoToken]

InitReset ==
  /\ db = InitialUser
  /\ doc = [r \in ResetRequests |-> IdleRequest]
  /\ now = 0
  /\ last = ResetCall("none", 0, NoToken)

\* forgot-password for the user's email: a token is signed and stored
ForgotPassword ==
  /\ db' = [db EXCEPT !.passwordResetToken = jwtSign(Owner, now),
                      !.passwordResetExpires = now + ResetTtl]
  /\ last' = ResetCall("forgot-password", 200, jwtSign(Owner, now))
  /\ UNCHANGED <<doc, now>>

\* reset-password up to its checks: the request is answered with an error,
\* or the handler has loaded the user and goes on to save
ResetPasswordLoad ==
  \E r \in ResetRequests,
     token \in {NoToken} \cup {jwtSign(Owner, t) : t \in 0 .. now} :
    /\ doc[r].pc = "idle"
    /\ LET status == resetPasswordChecks(db, token, now)
       IN IF status = 200
          THEN /\ doc' = [doc EXCEPT ![r] = [pc |-> "saving", token |-> token]]
               /\ UNCHANGED last
          ELSE /\ last' = ResetCall("reset-password", status, token)
               /\ UNCHANGED doc
    /\ UNCHANGED <<db, now>>

\* reset-password from its save on: the password is stored, 200 is answered
ResetPasswordSave ==
  \E r \in ResetRequests :
    /\ doc[r].pc = "saving"
    /\ db' = resetPasswordSave(db, NewPassword(r))
    /\ doc' = [doc EXCEPT ![r] = IdleRequest]
    /\ last' = ResetCall("reset-password", 200, doc[r].token)
    /\ now' = now

ResetTick ==
  /\ now < MaxClock
  /\ now' = now + 1
  /\ UNCHANGED <<doc, db, last>>

NextReset ==
  ForgotPassword \/ ResetPasswordLoad \/ ResetPasswordSave \/ ResetTick

SpecReset == InitReset /\ [][NextReset]_vars

----------------------------------------------------------------------------
(* register, login and forgot-password *)

\* the emails of requests: "r@x" has an account from the start, "a@x" may
\* register, "z@x" never does
Emails == {"a@x", "r@x", "z@x"}

\* req.body.referralCode when absent
NoCode == ""

\* (email, phone, referralCode) of register requests; phone "999" and the
\* referral code "REF" are those of "r@x"
RegisterArgs ==
  {<<"a@x", "111", NoCode>>, <<"a@x", "111", "REF">>, <<"a@x", "111", "BAD">>,
   <<"a@x", "999", NoCode>>, <<"r@x", "111", NoCode>>}

\* (email, password) of login requests; accounts have the password "pw"
LoginArgs == {<<"a@x", "pw">>, <<"a@x", "wrong">>, <<"z@x", "pw">>}

\* the email of forgot-password requests
ForgotArgs == {"a@x", "z@x"}

\* which awaited operation of a request fails: none, the first or the second
\* user.save(), or sendEmail
Failures == {"none", "save1", "save2", "mail"}

\* no account under an email
NoAccount ==
  [exists |-> FALSE, phone |-> Undefined, password |-> Undefined,
   referralCode |-> Undefined, referredBy |-> Undefined,
   attempts |-> 0, locked |-> FALSE, isBlocked |-> FALSE,
   emailVerificationToken |-> NoToken, passwordResetToken |-> NoToken]

\* new User({email, phone, password, referredBy}) once saved
NewUser(phone, password, referredBy) ==
  [NoAccount EXCEPT !.exists = TRUE, !.phone = phone, !.password = password,
                    !.referredBy = referredBy]

\* User.findOne({$or: [{email}, {phone}]}): some user is found
ExistingUser(store, email, phone) ==
  \E e \in Emails :
    store[e].exists /\ (e = email \/ store[e].phone = phone)

\* User.findByReferralCode(code): the email of the user found, or Undefined
findByReferralCode(store, code) ==
  IF \E e \in Emails : store[e].exists /\ store[e].referralCode = code
  THEN CHOOSE e \in Emails : store[e].exists /\ store[e].referralCode = code
  ELSE Undefined

\* the register handler on the stored users: the response and the stored
\* users afterwards
registerRoute(store, email, phone, password, referralCode, fail, t) ==
  IF ExistingUser(store, email, phone)
  THEN [status |-> 400, body |-> "exists", store |-> store]
  ELSE IF referralCode # NoCode
          /\ findByReferralCode(store, referralCode) = Undefined
  THEN [status |-> 400, body |-> "bad-referral", store |-> store]
  ELSE IF fail = "save1"
  THEN [status |-> 500, body |-> "error", store |-> store]
  ELSE LET referredBy == IF referralCode = NoCode THEN Undefined
                         ELSE findByReferralCode(store, referralCode)
           s1 == [store EXCEPT ![email] = NewUser(phone, password, referredBy)]
           s2 == [s1 EXCEPT ![email].emailVerificationToken = jwtSign(email, t)]
       IN IF fail = "save2"
          THEN [status |-> 500, body |-> "error", store |-> s1]
          ELSE IF fail = "mail"
          THEN [status |-> 500, body |-> "error", store |-> s2]
          ELSE [status |-> 201, body |-> "registered", store |-> s2]

\* the login handler checking the password before the lock and the block
loginRoute_PasswordFirst(store, email, password, t) ==
  LET u == store[email]
  IN IF ~u.exists
     THEN [status |-> 401, token |-> NoToken, store |-> store]
     ELSE IF u.password # password
     THEN [status |-> 401, token |-> NoToken,
           store |-> [store EXCEPT ![email].attempts = @ + 1]]
     ELSE IF u.locked
     THEN [status |-> 423, token |-> NoToken, store |-> store]
     ELSE IF u.isBlocked
     THEN [status |-> 403, token |-> NoToken, store |-> store]
     ELSE [status |-> 200, token |-> jwtSign(email, t),
           store |-> [store EXCEPT ![email].attempts = 0]]

\* the login handler: the response, the token issued and the stored users
\* afterwards; attempts counts the calls of incLoginAttempts since the last
\* resetLoginAttempts
loginRoute(store, email, password, t) ==
  LET u == store[email]
  IN IF ~u.exists
     THEN [status |-> 401, token |-> NoToken, store |-> store]
     ELSE IF u.locked
     THEN [status |-> 423, token |-> NoToken, store |-> store]
     ELSE IF u.isBlocked
     THEN [status |-> 403, token |-> NoToken, store |-> store]
     ELSE IF u.password # password
     THEN [status |-> 401, token |-> NoToken,
           store |-> [store EXCEPT ![email].attempts = @ + 1]]
     ELSE [status |-> 200, token |-> jwtSign(email, t),
           store |-> [store EXCEPT ![email].attempts = 0]]

\* the forgot-password handler: the response and the stored users afterwards
forgotPasswordRoute(store, email, fail, t) ==
  IF ~store[email].exists
  THEN [status |-> 200, body |-> "if-exists-sent", store |-> store]
  ELSE IF fail \in {"save1", "save2"}
  THEN [status |-> 500, body |-> "error", store |-> store]
  ELSE LET s1 == [store EXCEPT ![email].passwordResetToken = jwtSign(email, t)]
       IN IF fail = "mail"
          THEN [status |-> 500, body |-> "error", store |-> s1]
          ELSE [status |-> 200, body |-> "if-exists-sent", store |-> s1]

AccountCall(op, email, password, fail, status, body, token) ==
  [op |-> op, email |-> email, password |-> password, fail |-> fail,
   status |-> status, body |-> body, token |-> token]

InitAccount ==
  /\ db = [e \in Emails |->
             IF e = "r@x"
             THEN [NewUser("999", "pw", Undefined) EXCEPT !.referralCode = "REF"]
             ELSE NoAccount]
  /\ doc = << >>
  /\ now = 0
  /\ last = AccountCall("none", Undefined, Undefined, "none", 0, Undefined,
                        NoToken)

Register ==
  \E a \in RegisterArgs, fail \in Failures :
    LET r == registerRoute(db, a[1], a[2], "pw", a[3], fail, now)
    IN /\ db' = r.store
       /\ last' = AccountCall("register", a[1], "pw", fail, r.status, r.body,
                              NoToken)
       /\ UNCHANGED <<doc, now>>

Login ==
  \E a \in LoginArgs :
    LET r == loginRoute(db, a[1], a[2], now)
    IN /\ r.store[a[1]].attempts <= MaxAttempts
       /\ db' = r.store
       /\ last' = AccountCall("login", a[1], a[2], "none", r.status,
                              Undefined, r.token)
       /\ UNCHANGED <<doc, now>>

ForgotPasswordFor ==
  \E email \in ForgotArgs, fail \in Failures :
    LET r == forgotPasswordRoute(db, email, fail, now)
    IN /\ db' = r.store
       /\ last' = AccountCall("forgot-password", email, Undefined, fail,
                              r.status, r.body, NoToken)
       /\ UNCHANGED <<doc, now>>

\* an account with failed logins becomes locked, or its lock ends
SetLocked ==
  \E e \in Emails :
    /\ db[e].exists
    /\ db[e].locked \/ db[e].attempts > 0
    /\ db' = [db EXCEPT ![e].locked = ~@]
    /\ last' = AccountCall("set-locked", e, Undefined, "none", 0, Undefined,
                           NoToken)
    /\ UNCHANGED <<doc, now>>

\* an account is blocked or unblocked
SetBlocked ==
  \E e \in Emails :
    /\ db[e].exists
    /\ db' = [db EXCEPT ![e].isBlocked = ~@]
    /\ last' = AccountCall("set-blocked", e, Undefined, "none", 0, Undefined,
                           NoToken)
    /\ UNCHANGED <<doc, now>>

NextAccount ==
  Register \/ Login \/ ForgotPasswordFor \/ SetLocked \/ SetBlocked

SpecAccount == InitAccount /\ [][NextAccount]_vars

----------------------------------------------------------------------------
(* All five lifecycle methods *)

\* the statuses passed to updateStatus in SpecLife
LifeStatuses == {"in-progress", BadStatus}

UpdateStatusLife == UpdateStatusTo(LifeStatuses)

\* updateTracking(latitude, longitude) with the default address ''
UpdateTracking ==
  \E a \in TrackArgs, t2 \in HookTimes :
    /\ Room(2)
    /\ Finish(Save(updateTrackingBody(doc, a[1], a[2], "", now), t2),
              Call("updateTracking", TRUE, Undefined, a[1], a[2], 0), t2)

\* addReview(rating, comment) with the default isPublic = true
AddReview ==
  \E a \in ReviewArgs, t2 \in HookTimes :
    /\ Room(1)
    /\ Finish(Save(addReviewBody(doc, a[1], a[2], TRUE, now), t2),
              Call("addReview", TRUE, Undefined, Undefined, a[2], a[1]), t2)

\* the number of items a document holds
Size(d) ==
  Len(d.history) + Len(d.messages) + Len(d.route)
  + (IF d.review.rating # NoRating THEN 1 ELSE 0)
  + (IF d.cancellation.isCancelled THEN 1 ELSE 0)

Fits == Size(doc) <= MaxLife

NextLife ==
  /\ \/ SaveBooking
     \/ UpdateStatusLife
     \/ AddMessage
     \/ UpdateTracking
     \/ CancelBooking
     \/ AddReview
  /\ Fits'

SpecLife == Init /\ [][NextLife]_vars

----------------------------------------------------------------------------
(* Properties *)

NonDecreasing(h) ==
  \A i \in 1 .. Len(h) : \A j \in i .. Len(h) :
    h[i].timestamp <= h[j].timestamp

\* the last call was op and its save succeeded
Succeeded(op) == last.op = op /\ last.ok

\* C1: after every successful updateStatus or cancelBooking, the status of
\* the last entry of status.history equals status.current, in the caller's
\* document and in the stored one
C1_LastHistoryIsCurrent ==
  (Succeeded("updateStatus") \/ Succeeded("cancelBooking")) =>
    /\ doc.history # << >>
    /\ LastOf(doc.history).status = doc.current
    /\ db.history # << >>
    /\ LastOf(db.history).status = db.current

\* a successful cancelBooking that follows an updateStatus to "confirmed"
C1_Witness ==
  /\ Succeeded("cancelBooking")
  /\ \E i \in 1 .. Len(doc.history) : doc.history[i].status = "confirmed"

\* C2: a booking constructed without an explicit status is stored by its
\* first save with status.current "pending" and exactly one history entry,
\* of status "pending"; the stored history is never empty
C2_CreatedWithOnePendingEntry ==
  [][/\ db' # << >> => db'.history # << >>
     /\ (/\ last.op = "new" /\ ~doc.modCurrent
         /\ last'.op = "save" /\ last'.ok)
        => /\ db'.current = "pending"
           /\ Len(db'.history) = 1
           /\ db'.history[1].status = "pending"]_vars

\* C3: a successful updateStatus(newStatus, actor, note) sets status.current
\* to newStatus and extends status.history by exactly the one entry
\* (newStatus, now, actor, note)
C3_UpdateAppendsExactlyOne ==
  [][(last'.op = "updateStatus" /\ last'.ok)
     => /\ doc'.current = last'.status
        /\ doc'.history =
             Append(doc.history,
                    [status |-> last'.status, timestamp |-> now,
                     updatedBy |-> last'.by, notes |-> last'.text])]_vars

\* C4: updateStatus with a status outside the enum fails and leaves
\* status.current and status.history of the booking as they were
C4_InvalidStatusLeavesBooking ==
  [][(last'.op = "updateStatus" /\ last'.status \notin Statuses)
     => /\ ~last'.ok
        /\ doc'.current = doc.current
        /\ doc'.history = doc.history]_vars

\* C5: the timestamps of status.history are non-decreasing in list order,
\* in the caller's document and in the stored one
C5_HistoryTimestampsNonDecreasing ==
  /\ NonDecreasing(doc.history)
  /\ db # << >> => NonDecreasing(db.history)

\* a history whose entries come from several calls made at different times
C5_Witness ==
  /\ Succeeded("updateStatus") \/ Succeeded("cancelBooking")
  /\ Len(doc.history) >= 3
  /\ doc.history[1].timestamp < LastOf(doc.history).timestamp

\* the cancellation sub-record and status that cancelBooking(by, reason,
\* amount) leaves in x
Cancelled(x) ==
  /\ x.cancellation.isCancelled
  /\ x.cancellation.refundAmount = last.amount
  /\ x.cancellation.refundStatus =
       (IF last.amount > 0 THEN "pending" ELSE "completed")
  /\ x.current = "cancelled"

\* C6: cancelBooking sets isCancelled, refundAmount and status.current
\* "cancelled", and refundStatus "pending" for a refundAmount > 0 and
\* "completed" otherwise
C6_CancelSetsRecord ==
  (last.op = "cancelBooking") =>
    /\ Cancelled(doc)
    /\ last.ok => Cancelled(db)

\* a cancelBooking with the default refundAmount 0
C6_Witness ==
  /\ Succeeded("cancelBooking")
  /\ last.amount = 0
  /\ db.cancellation.refundStatus = "completed"

\* C7: every successful cancelBooking appends one history entry of status
\* "cancelled" whose updatedBy is the cancelledBy argument
C7_CancelAppendsActorEntry ==
  [][(last'.op = "cancelBooking" /\ last'.ok)
     => /\ Len(doc'.history) = Len(doc.history) + 1
        /\ LastOf(doc'.history).status = "cancelled"
        /\ LastOf(doc'.history).updatedBy = last'.by]_vars

\* C8: once cancelBooking has set the cancellation sub-record, no later
\* call changes its cancelledBy, cancelledAt, reason or refundAmount
C8_CancellationImmutable ==
  [][doc.cancellation.isCancelled
     => /\ doc'.cancellation.cancelledBy = doc.cancellation.cancelledBy
        /\ doc'.cancellation.cancelledAt = doc.cancellation.cancelledAt
        /\ doc'.cancellation.reason = doc.cancellation.reason
        /\ doc'.cancellation.refundAmount = doc.cancellation.refundAmount]_vars

\* C9: updateStatus to a status of the enum succeeds whatever the status
\* before the call, and the new status is the current and the stored one
C9_AnyTransitionSucceeds ==
  (last.op = "updateStatus" /\ last.status \in Statuses) =>
    /\ last.ok
    /\ doc.current = last.status
    /\ db.current = last.status

\* a successful updateStatus from "completed" to "pending"
C9_Witness ==
  /\ Succeeded("updateStatus")
  /\ last.status = "pending"
  /\ \E i \in 1 .. Len(doc.history) - 1 :
       /\ doc.history[i].status = "completed"
       /\ doc.history[i + 1].status = "pending"
       /\ doc.history[i + 1].updatedBy = last.by

\* C10: each addMessage(sender, text) appends exactly the one entry
\* (sender, text, now, isRead = FALSE) at the end of messages, and a
\* successful call stores the messages in that order
C10_AddMessageAppendsOne ==
  [][(last'.op = "addMessage")
     => /\ doc'.messages =
             Append(doc.messages,
                    [sender |-> last'.by, message |-> last'.text,
                     timestamp |-> now, isRead |-> FALSE])
        /\ \A i \in 1 .. Len(doc'.messages) : ~doc'.messages[i].isRead
        /\ last'.ok => db'.messages = doc'.messages]_vars

\* two different messages stored in call order
C10_Witness ==
  /\ Succeeded("addMessage")
  /\ Len(db.messages) = 2
  /\ db.messages[1].message # db.messages[2].message
  /\ db.messages[2].message = last.text

\* C11: addReview with a rating outside [1,5] fails and leaves the booking's
\* review as it was; with a rating in [1,5] it succeeds and sets
\* review.rating to the rating given
C11_ReviewRatingChecked ==
  [][(last'.op = "addReview")
     => IF last'.amount >= 1 /\ last'.amount <= 5
        THEN last'.ok /\ doc'.review.rating = last'.amount
        ELSE ~last'.ok /\ doc'.review = doc.review]_vars

\* the coordinates updateTracking(latitude, longitude) was last called with
CalledCoordinates(c) == [latitude |-> c.by, longitude |-> c.text]

\* C12: each updateTracking(latitude, longitude) sets
\* tracking.currentLocation.coordinates and appends exactly one entry with
\* those coordinates to tracking.route, and no other call touches the route:
\* currentLocation's coordinates are those of the last route entry
C12_TrackingAppendsOne ==
  [][/\ (last'.op = "updateTracking")
        => /\ doc'.currentLocation.coordinates = CalledCoordinates(last')
           /\ doc'.route =
                Append(doc.route, [coordinates |-> CalledCoordinates(last'),
                                   timestamp |-> now])
           /\ last'.ok => /\ db'.route = doc'.route
                          /\ db'.currentLocation = doc'.currentLocation
     /\ (last'.op # "updateTracking") => doc'.route = doc.route
     /\ (doc'.route # << >>)
        => doc'.currentLocation.coordinates
             = LastOf(doc'.route).coordinates]_vars

\* two calls with different coordinates, both stored
C12_Witness ==
  /\ Succeeded("updateTracking")
  /\ Len(db.route) = 2
  /\ db.route[1].coordinates # db.route[2].coordinates
  /\ db.currentLocation.coordinates = CalledCoordinates(last)

\* the three lists of x are extended by y
Extends(x, y) ==
  /\ IsPrefix(x.history, y.history)
  /\ IsPrefix(x.messages, y.messages)
  /\ IsPrefix(x.route, y.route)

\* C13: status.history, messages and tracking.route are append-only: after
\* any lifecycle call each list has its previous value as a prefix, in the
\* caller's document and in the stored one
C13_ListsAppendOnly ==
  [][/\ Extends(doc, doc')
     /\ (db # << >>) => Extends(db, db')]_vars

\* a stored booking with entries in all three lists
C13_Witness ==
  /\ db # << >>
  /\ db.history # << >>
  /\ db.messages # << >>
  /\ db.route # << >>

\* C14: no lifecycle call changes the pricing snapshot or the payment
\* sub-record, in the caller's document or in the stored one
C14_PricingPaymentUntouched ==
  [][/\ doc'.pricing = doc.pricing
     /\ doc'.payment = doc.payment
     /\ (db' # << >>) => /\ db'.pricing = doc.pricing
                         /\ db'.payment = doc.payment]_vars

\* a stored cancellation with a refund amount, the payment still as created
C14_Witness ==
  /\ Succeeded("cancelBooking")
  /\ last.amount = 50
  /\ db.cancellation.refundAmount = 50
  /\ db.payment = InitialPayment

\* C15: a booking's bookingId is assigned at its first save and is never
\* changed afterwards (one booking; that no two stored bookings share a
\* bookingId is left to the unique index)
C15_BookingIdAssignedOnce ==
  [][/\ (doc.isNew /\ last'.op = "save")
        => /\ last'.ok
           /\ doc'.bookingId # NoBookingId
           /\ db'.bookingId = doc'.bookingId
     /\ (doc.bookingId # NoBookingId) => doc'.bookingId = doc.bookingId]_vars

\* C16: each successful transition yields one notification intent per
\* distinct interested participant and no other, be it as intents returned
\* by updateStatus or as the rooms a booking-update of the booking is
\* relayed to
C16_IntentPerParticipant ==
  Succeeded("updateStatus") =>
    \/ updateStatusIntents(doc) = Participants(doc)
    \/ {r[2] : r \in bookingUpdateRooms(
                       [userId |-> doc.user, runnerId |-> doc.runner])}
         = Participants(doc)

\* status.current of x matches the last entry of its history
Matched(x) == x.history # << >> => LastOf(x.history).status = x.current

\* C17: when the write of a transition or of a cancel fails, neither the
\* caller's booking nor the stored one has status.current without its
\* matching history entry, and a retried save adds no further history entry
C17_FailedWriteThenRetry ==
  [][/\ (last'.op \in {"updateStatus", "cancelBooking"} /\ ~last'.ok)
        => /\ Matched(doc')
           /\ db' = db
     /\ (/\ last.op \in {"updateStatus", "cancelBooking"} /\ ~last.ok
         /\ last'.op = "save" /\ last'.ok)
        => /\ doc'.history = doc.history
           /\ db'.history = doc.history]_vars

\* the step of the running average: ratings.total grows by one and
\* ratings.average becomes (oldAvg * oldCount + r) / (oldCount + 1)
RatingStep ==
  /\ doc'.total = doc.total + 1
  /\ doc'.average =
       NumDivInt(NumPlusInt(NumTimesInt(doc.average, doc.total),
                            last'.rating), doc.total + 1)
  /\ doc'.total = last'.n

\* C18 as stated: each updateRating(r) adds one to ratings.total and sets
\* ratings.average to (oldAvg * oldCount + r) / (oldCount + 1), and after the
\* calls r1..rn ratings.total = n and ratings.average * n = r1 + ... + rn
C18_AverageTimesCountIsSum ==
  [][last'.op = "updateRating"
       => /\ RatingStep
          /\ NumTimesInt(doc'.average, last'.n) = NumOfInt(last'.sum)]_vars

\* C18 amended: each updateRating(r) adds one to ratings.total and sets
\* ratings.average to (oldAvg * oldCount + r) / (oldCount + 1), and after the
\* calls r1..rn with ratings in 1..5 ratings.total = n and
\* ratings.average * n is r1 + ... + rn up to rounding: the two differ by at
\* most 4 * n * (n + 1) units in the last place of ratings.average
C18_AverageTimesCountNearSum ==
  [][last'.op = "updateRating"
       => /\ RatingStep
          /\ WLeq(UlpsOff(doc'.average, last'.n, last'.sum),
                  WOfInt(4 * last'.n * (last'.n + 1)))]_vars

\* seven or more ratings after which ratings.average * n is not their sum
C18_Witness ==
  /\ last.op = "updateRating"
  /\ last.ok
  /\ last.n >= 7
  /\ doc.total = last.n
  /\ db = doc
  /\ NumTimesInt(doc.average, last.n) # NumOfInt(last.sum)

\* the sum of the five buckets of ratings.distribution
BucketSum(v) ==
  v.distribution["five"] + v.distribution["four"] + v.distribution["three"]
    + v.distribution["two"] + v.distribution["one"]

\* C19: each updateRating(r) with r in 1..5 increments the bucket matching r
\* and no other, so the five buckets sum to ratings.total
C19_OneBucketPerRating ==
  [][(last'.op = "updateRating" /\ last'.rating \in 1 .. 5)
       => /\ doc'.distribution =
               [doc.distribution EXCEPT ![BucketOf(last'.rating)] = @ + 1]
          /\ BucketSum(doc') = doc'.total]_vars

\* C20: when two callers load the same booking, each apply updateStatus and
\* each save, in whatever order their steps interleave, the stored booking
\* has as status.current the status of the later save, and its last history
\* entry has that status
C20_LastWriteWinsAudited ==
  (\A c \in Callers : doc[c].pc = "done" /\ doc[c].call.ok)
    => /\ db.current = last.status
       /\ LastOf(db.history).status = db.current

\* C22: a successful transition into 'in-progress' sets actualStartTime, one
\* out of 'in-progress' sets actualEndTime, and neither, once set, is changed
\* by a later transition
C22_ActualTimesSetOnce ==
  [][(last'.op = "updateStatus" /\ last'.ok)
       => /\ (last'.status = "in-progress" /\ doc.current # "in-progress")
               => (doc'.actualStartTime # NoTime /\ db'.actualStartTime # NoTime)
          /\ (last'.status # "in-progress" /\ doc.current = "in-progress")
               => (doc'.actualEndTime # NoTime /\ db'.actualEndTime # NoTime)
          /\ doc.actualStartTime # NoTime
               => doc'.actualStartTime = doc.actualStartTime
          /\ doc.actualEndTime # NoTime
               => doc'.actualEndTime = doc.actualEndTime]_vars

\* C29: after any successful updateStatus or cancelBooking,
\* cancellation.isCancelled is true exactly when status.current is
\* 'cancelled', in the caller's booking and in the stored one
C29_CancelledFlagMatchesStatus ==
  (last.op \in {"updateStatus", "cancelBooking"} /\ last.ok)
    => /\ doc.cancellation.isCancelled <=> doc.current = "cancelled"
       /\ db.cancellation.isCancelled <=> db.current = "cancelled"

\* C21: however the updateStatus calls on two distinct bookings interleave,
\* once the calls on a booking have returned its status.current and
\* status.history, in the caller's document and in the stored one, are those
\* of the same calls run alone
C21_DistinctBookingsIndependent ==
  \A b \in Bookings :
    doc[b].pc = "loaded"
      => /\ doc[b].d.current = last.alone[b].doc.current
         /\ doc[b].d.history = last.alone[b].doc.history
         /\ db[b].current = last.alone[b].db.current
         /\ db[b].history = last.alone[b].db.history

\* both bookings have been moved, to different statuses, and the write of a
\* further call on the first is still under way
C21_Witness ==
  /\ db[1].current = "confirmed"
  /\ db[2].current = "completed"
  /\ Len(db[2].history) = 3
  /\ doc[1].pc = "saving"
  /\ doc[1].d.current = "completed"

\* how many of the times ts lie in (t - w, t]
InWindow(ts, t, w) ==
  Cardinality({i \in DOMAIN ts : ts[i] > t - w /\ ts[i] <= t})

\* C23: for every user and instant t at most maxRequests of the user's
\* requests passed to next() arrived in (t - windowMs, t]; a request answered
\* 429 is not recorded; and a request is admitted or not by the user's own
\* earlier admitted requests alone, other users' entries staying as they are
C23_AtMostMaxPerWindow ==
  [][last'.op = "request" =>
       /\ \A u \in Users, t \in 0 .. MaxClock :
            InWindow(db'[u], t, doc.windowMs) <= doc.maxRequests
       /\ last'.user \in Users =>
            /\ last'.status = 200
                 <=> InWindow(db[last'.user], last'.time, doc.windowMs)
                       < doc.maxRequests
            /\ last'.status = 429 =>
                 /\ db' = db
                 /\ last'.time \notin
                      {doc'.requests[last'.user][i] :
                         i \in DOMAIN doc'.requests[last'.user]}
                      \ {doc.requests[last'.user][i] :
                           i \in DOMAIN doc.requests[last'.user]}
            /\ \A v \in Users \ {last'.user} :
                 doc'.requests[v] = doc.requests[v]]_vars

\* a user with maxRequests admitted requests in the window is answered 429
\* while the other user is still admitted later
C23_Witness ==
  /\ last.op = "request"
  /\ last.user = "u1"
  /\ last.status = 429
  /\ doc.maxRequests = 2
  /\ Len(db["u1"]) >= 3
  /\ Len(db["u2"]) >= 1

\* the sockets an event of the given name was delivered to
Reached(name) ==
  UNION {last.deliveries[i].to :
           i \in {j \in DOMAIN last.deliveries : last.deliveries[j].name = name}}

\* the connected sockets that have emitted the join j
Joined(j) == {s \in Sockets : doc[s].connected /\ j \in doc[s].joins}

\* C28: a relayed event reaches exactly the connected sockets that joined
\* its target room: a booking-update those that emitted join-user with its
\* userId or join-runner with its runnerId, a location-update those that
\* emitted join-user with its userId, a send-message no socket
C28_RelayReachesRoomMembers ==
  /\ last.op = "booking-update" =>
       Reached("booking-status-changed")
         = Joined(<<"join-user", last.data.userId>>)
             \cup Joined(<<"join-runner", last.data.runnerId>>)
  /\ last.op = "location-update" =>
       Reached("runner-location-updated")
         = Joined(<<"join-user", last.data.userId>>)
  /\ last.op = "send-message" => Reached("new-message") = {}
  /\ \A i \in DOMAIN last.deliveries :
       last.deliveries[i].name
         = CASE last.op = "booking-update" -> "booking-status-changed"
             [] last.op = "location-update" -> "runner-location-updated"
             [] last.op = "send-message" -> "new-message"

\* a booking-update sent by a socket that joined as runner 2 reaches the
\* socket that joined as user 1 and not the sender
C28_Witness ==
  /\ last.op = "booking-update"
  /\ last.socket = "s2"
  /\ last.data = [userId |-> "1", runnerId |-> "1"]
  /\ doc["s2"].joins = {<<"join-runner", "2">>, <<"join-user", "2">>}
  /\ Reached("booking-status-changed") = {"s1"}

\* C24: authMiddleware calls next() only for a request whose user is, when
\* the request is made, neither blocked nor deactivated in the database,
\* whatever the cache holds
C24_NoNextForBlockedUser ==
  [][(last'.op = "auth" /\ last'.status = 200)
       => (db.isActive /\ ~db.isBlocked)]_vars

\* C25: a reset-password request changes the password only while the token
\* it presents is the one stored for the user, so not after a successful
\* reset with that token nor after a newer token has replaced it; a rejected
\* request leaves the user's record as it was
C25_ResetTokenSingleUse ==
  [][last'.op = "reset-password" /\ last' # last
       => IF last'.status = 200
          THEN db.passwordResetToken = last'.token
          ELSE db' = db]_vars

\* C26: login issues a token only if the account exists, is not locked, is
\* not blocked and the password matches; a locked account is answered 423
\* and a blocked one 403 with the attempt counter untouched; a wrong
\* password on an unlocked, unblocked account adds exactly one to the
\* counter, and a successful login resets it
C26_LoginChecksInOrder ==
  [][last'.op = "login" =>
       LET u == db[last'.email]
           v == db'[last'.email]
           right == u.password = last'.password
       IN /\ last'.token # NoToken
               <=> (u.exists /\ ~u.locked /\ ~u.isBlocked /\ right)
          /\ (u.exists /\ u.locked)
               => (last'.status = 423 /\ v.attempts = u.attempts)
          /\ (u.exists /\ ~u.locked /\ u.isBlocked)
               => (last'.status = 403 /\ v.attempts = u.attempts)
          /\ (u.exists /\ ~u.locked /\ ~u.isBlocked /\ ~right)
               => (last'.status = 401 /\ v.attempts = u.attempts + 1)
          /\ last'.token # NoToken
               => (last'.status = 200 /\ v.attempts = 0)]_vars

\* a wrong password on an account that is locked and has one failed login
C26_Witness ==
  /\ last.op = "login"
  /\ last.status = 423
  /\ last.password = "wrong"
  /\ db["a@x"].attempts = 1
  /\ db["a@x"].locked

\* the stored users with no account under email
Without(store, email) == [store EXCEPT ![email] = NoAccount]

\* C27: the status and body of a forgot-password response are those the
\* same request gets when no account exists for the email, also when the
\* save of the token or the email fails
C27_ForgotPasswordSameResponse ==
  [][last'.op = "forgot-password" =>
       LET r == forgotPasswordRoute(Without(db, last'.email), last'.email,
                                    last'.fail, now)
       IN last'.status = r.status /\ last'.body = r.body]_vars

\* C30: a register request answered with anything other than 201 leaves the
\* stored users as they were
C30_FailedRegisterStoresNothing ==
  [][(last'.op = "register" /\ last'.status # 201) => db' = db]_vars

====
